---- MODULE Spec2Model ----
(***************************************************************************)
(* syslog-hv: a UDP syslog traffic generator (src/src/main.rs).            *)
(* The main thread installs a ctrl-c handler, spawns threads_nr            *)
(* transmitter threads (tx_thread) and then reports once per second;       *)
(* every transmitter builds a pool of messages, sends them in a paced loop *)
(* and merges its local counters into a mutex-guarded shared Stats.        *)
(*                                                                         *)
(* Time is abstracted: a sleep is a step, and `tick.elapsed() >= 100ms`    *)
(* is a nondeterministic choice. A string is a sequence of one-character   *)
(* strings, so that its length in bytes is Len.                            *)
(***************************************************************************)
EXTENDS Integers, Sequences, FiniteSets, TLC

\* ------------------------------------------------------------------ bounds
\* largest -t value drawn (threads_nr is a usize in the source)
MaxThreads == 2
\* size of a transmitter's message pool (4 * 1024 in the source)
PoolSize == 2
\* datagrams sent by all transmitters together before the model stops sending
MaxSends == 2

VARIABLES
    cfg,         \* Config.options and Args.threads_nr
    signalled,   \* the AtomicBool shared by the handler, main and the transmitters
    mpc,         \* position of the main thread
    spawned,     \* handles.len(): transmitters spawned so far
    joined,      \* handles joined so far
    exitCode,    \* exit status of the process, -1 while it runs
    mfail,       \* where main panicked
    mutex,       \* holder of the Mutex<Stats>: 0 free, -1 main, w transmitter w
    stats,       \* the shared Stats
    wpc,         \* position of each transmitter
    wfail,       \* where a transmitter panicked
    tstats,      \* each transmitter's local Stats
    messages,    \* each transmitter's message pool
    wire,        \* the last datagram handed to a socket: <<sender, payload>>
    sent,        \* history: datagrams and bytes handed to the socket
    flushed,     \* history: sum of the deltas flushed into the shared Stats
    reported,    \* history: sum of the values printed by the reporter
    sinceDrain,  \* history: sum of the deltas flushed since the last drain
    flushedAtDrain, \* history: value of flushed at the last drain
    hasSent,     \* history: the transmitter has sent a datagram
    postSends,   \* history: sends each transmitter started after the flag was set
    hasDrained,  \* history: the reporter has drained
    postDrains   \* history: drains done after the flag was set, counted up to 2

vars == <<cfg, signalled, mpc, spawned, joined, exitCode, mfail, mutex, stats,
          wpc, wfail, tstats, messages, wire, sent, flushed, reported,
          sinceDrain, flushedAtDrain, hasSent, postSends, hasDrained, postDrains>>

Workers == 1..MaxThreads

\* ------------------------------------------------------------------ Stats
Zero == [packets |-> 0, bytes |-> 0]

Add(a, b) == [packets |-> a.packets + b.packets, bytes |-> a.bytes + b.bytes]

RECURSIVE SumStats(_, _)
SumStats(f, S) ==
    IF S = {} THEN Zero
    ELSE LET w == CHOOSE x \in S : TRUE
         IN  Add(f[w], SumStats(f, S \ {w}))

\* ------------------------------------------------------------------ strings
DigitChars == <<"0", "1", "2", "3", "4", "5", "6", "7", "8", "9">>

\* decimal rendering of {prio} in format!
RECURSIVE Digits(_)
Digits(n) ==
    IF n < 10 THEN <<DigitChars[n + 1]>>
    ELSE Digits(n \div 10) \o <<DigitChars[(n % 10) + 1]>>

\* rand_word::new(k): k word tokens separated by single spaces
RECURSIVE RandWord(_)
RandWord(k) ==
    IF k = 0 THEN <<>>
    ELSE IF k = 1 THEN <<"w">>
    ELSE RandWord(k - 1) \o <<" ", "w">>

\* format!("<{prio}> {words}")
FormatMessage(prio, words) == <<"<">> \o Digits(prio) \o <<">", " ">> \o words

\* rng.gen_range(lo..hi): the values it may return; it panics on an empty range
GenRange(lo, hi) == lo..(hi - 1)

\* LengthChoices with the range 1..=words_max instead of 1..words_max
LengthChoicesInclusive(c) ==
    IF c.words_fixed # 0 THEN {c.words_fixed} ELSE 1..c.words_max

\* the values `length` may take at line 123-127; {} when gen_range panics
LengthChoices(c) ==
    IF c.words_fixed # 0 THEN {c.words_fixed} ELSE GenRange(1, c.words_max)

\* PrioChoices with the range 0..=priority_max instead of 0..priority_max
PrioChoicesInclusive(c) == 0..c.priority_max

\* the values `prio` may take at line 130; {} when gen_range panics
PrioChoices(c) == GenRange(0, c.priority_max)

\* the messages one iteration of the pool loop may push
PoolMessages(c) ==
    {FormatMessage(p, RandWord(k)) : p \in PrioChoices(c), k \in LengthChoices(c)}

\* the first iteration of the pool loop panics
PoolPanics(c) == LengthChoices(c) = {} \/ PrioChoices(c) = {}

\* ------------------------------------------------------------------ reading a payload back
DigitValue(ch) == (CHOOSE i \in 1..10 : DigitChars[i] = ch) - 1

RECURSIVE DecimalValue(_)
DecimalValue(s) ==
    IF s = <<>> THEN 0
    ELSE 10 * DecimalValue(SubSeq(s, 1, Len(s) - 1)) + DigitValue(s[Len(s)])

ClosePos(s) == CHOOSE i \in 1..Len(s) : s[i] = ">" /\ \A j \in 1..(i - 1) : s[j] # ">"

\* the integer between the angle brackets
ParsePrio(s) == DecimalValue(SubSeq(s, 2, ClosePos(s) - 1))

\* number of whitespace-separated tokens after the priority
WordCount(s) ==
    Cardinality({i \in (ClosePos(s) + 1)..Len(s) : s[i] # " " /\ s[i - 1] = " "})

\* ------------------------------------------------------------------ configuration
\* -P, -W and -F values with one possible message or none: both kinds of
\* empty range, and a fixed word count with a words_max that would be an
\* empty range if it were consulted
PlainOptions ==
    { [priority_max |-> 0, words_max |-> 3, words_fixed |-> 0],
      [priority_max |-> 0, words_max |-> 0, words_fixed |-> 2],
      [priority_max |-> 2, words_max |-> 1, words_fixed |-> 0],
      [priority_max |-> 1, words_max |-> 0, words_fixed |-> 0],
      [priority_max |-> 1, words_max |-> 1, words_fixed |-> 2] }

\* -P, -W and -F values with several possible messages: a variable priority,
\* and a variable word count
RichOptions ==
    { [priority_max |-> 2, words_max |-> 2, words_fixed |-> 0],
      [priority_max |-> 1, words_max |-> 3, words_fixed |-> 0] }

MakeConfig(n, o) ==
    [threads_nr   |-> n,
     priority_max |-> o.priority_max,
     words_max    |-> o.words_max,
     words_fixed  |-> o.words_fixed]

\* the command lines drawn: every thread count with the plain options, and
\* at most one transmitter with the rich ones
Configs ==
    {MakeConfig(n, o) : n \in 0..MaxThreads, o \in PlainOptions}
        \cup {MakeConfig(n, o) : n \in 0..1, o \in RichOptions}

ConfigError(c) ==
    c.priority_max = 0 \/ (c.words_fixed = 0 /\ c.words_max <= 1)

Init ==
    /\ cfg \in Configs
    /\ signalled = FALSE
    /\ mpc = "handler"
    /\ spawned = 0
    /\ joined = 0
    /\ exitCode = -1
    /\ mfail = "none"
    /\ mutex = 0
    /\ stats = Zero
    /\ wpc = [w \in Workers |-> "unspawned"]
    /\ wfail = [w \in Workers |-> "none"]
    /\ tstats = [w \in Workers |-> Zero]
    /\ messages = [w \in Workers |-> <<>>]
    /\ wire = <<>>
    /\ sent = Zero
    /\ flushed = Zero
    /\ reported = Zero
    /\ sinceDrain = Zero
    /\ flushedAtDrain = Zero
    /\ hasSent = [w \in Workers |-> FALSE]
    /\ postSends = [w \in Workers |-> 0]
    /\ hasDrained = FALSE
    /\ postDrains = 0

\* the process has not ended: its threads still run
Alive == exitCode = -1

history == <<sent, flushed, reported, sinceDrain, flushedAtDrain, hasSent,
             postSends, hasDrained, postDrains>>
wstate == <<wpc, wfail, tstats, messages, wire>>
mstate == <<mpc, spawned, joined, exitCode, mfail>>

\* ------------------------------------------------------------------ the signal handler
\* the closure given to ctrlc::set_handler; it runs on every SIGINT once installed
SignalHandler ==
    /\ Alive
    /\ mpc # "handler"
    /\ signalled' = TRUE
    /\ UNCHANGED <<cfg, mstate, mutex, stats, wstate, history>>

\* ------------------------------------------------------------------ main
\* ctrlc::set_handler(...) returns Ok
MInstallHandler ==
    /\ Alive
    /\ mpc = "handler"
    /\ mpc' = "spawn"
    /\ UNCHANGED <<cfg, signalled, spawned, joined, exitCode, mfail, mutex,
                   stats,
                   wstate, history>>

\* ctrlc::set_handler(...) returns Err: .expect panics in main
MInstallHandlerFail ==
    /\ Alive
    /\ mpc = "handler"
    /\ mpc' = "panicked"
    /\ mfail' = "handler"
    /\ exitCode' = 101
    /\ UNCHANGED <<cfg, signalled, spawned, joined, mutex, stats, wstate, history>>

\* one iteration of `for _ in 0..args.threads_nr`, or the end of that loop
MSpawn ==
    /\ Alive
    /\ mpc = "spawn"
    /\ IF spawned < cfg.threads_nr
       THEN /\ spawned' = spawned + 1
            /\ wpc' = [wpc EXCEPT ![spawned + 1] = "bind"]
            /\ mpc' = mpc
       ELSE /\ mpc' = "sleep"
            /\ UNCHANGED <<spawned, wpc>>
    /\ UNCHANGED <<cfg, signalled, joined, exitCode, mfail, mutex, stats, wfail,
                   tstats, messages, wire, history>>

\* thread::sleep(Duration::from_secs(1))
MSleep ==
    /\ Alive
    /\ mpc = "sleep"
    /\ mpc' = "lock"
    /\ UNCHANGED <<cfg, signalled, spawned, joined, exitCode, mfail, mutex,
                   stats,
                   wstate, history>>

\* stats.lock().unwrap() in the reporter
MLock ==
    /\ Alive
    /\ mpc = "lock"
    /\ mutex = 0
    /\ mutex' = -1
    /\ mpc' = "drain"
    /\ UNCHANGED <<cfg, signalled, spawned, joined, exitCode, mfail, stats,
                   wstate, history>>

\* MDrain forgetting `stats.bytes = 0`
MDrainKeepsBytes ==
    /\ Alive
    /\ mpc = "drain"
    /\ mutex = -1
    /\ reported' = Add(reported, stats)
    /\ sinceDrain' = Zero
    /\ flushedAtDrain' = flushed
    /\ stats' = [packets |-> 0, bytes |-> stats.bytes]
    /\ mutex' = 0
    /\ hasDrained' = TRUE
    /\ postDrains' = IF signalled /\ postDrains < 2 THEN postDrains + 1
                      ELSE postDrains
    /\ mpc' = "check"
    /\ UNCHANGED <<cfg, signalled, spawned, joined, exitCode, mfail, wstate,
                   sent, flushed, hasSent, postSends>>

\* the reporter's critical section: print the counters, zero them, drop the guard
MDrain ==
    /\ Alive
    /\ mpc = "drain"
    /\ mutex = -1
    /\ reported' = Add(reported, stats)
    /\ sinceDrain' = Zero
    /\ flushedAtDrain' = flushed
    /\ stats' = [packets |-> 0, bytes |-> 0]
    /\ mutex' = 0
    /\ hasDrained' = TRUE
    /\ postDrains' = IF signalled /\ postDrains < 2 THEN postDrains + 1
                      ELSE postDrains
    /\ mpc' = "check"
    /\ UNCHANGED <<cfg, signalled, spawned, joined, exitCode, mfail, wstate,
                   sent, flushed, hasSent, postSends>>

\* println! fails to write to stdout and panics, inside the critical section
MPrintFail ==
    /\ Alive
    /\ mpc = "drain"
    /\ mutex = -1
    /\ mpc' = "panicked"
    /\ mfail' = "print"
    /\ exitCode' = 101
    /\ UNCHANGED <<cfg, signalled, spawned, joined, mutex, stats, wstate, history>>

\* signalled.load(SeqCst) at the end of a reporter iteration
MCheck ==
    /\ Alive
    /\ mpc = "check"
    /\ mpc' = IF signalled THEN "join" ELSE "sleep"
    /\ UNCHANGED <<cfg, signalled, spawned, joined, exitCode, mfail, mutex,
                   stats,
                   wstate, history>>

\* one iteration of `for handle in handles { handle.join().unwrap() }`, or the
\* return from main after the last one
MJoin ==
    /\ Alive
    /\ mpc = "join"
    /\ IF joined = spawned
       THEN /\ mpc' = "done"
            /\ exitCode' = 0
            /\ UNCHANGED <<joined, mfail>>
       ELSE /\ wpc[joined + 1] \in {"exited", "panicked"}
            /\ IF wpc[joined + 1] = "panicked"
               THEN /\ mpc' = "panicked"
                    /\ mfail' = "join"
                    /\ exitCode' = 101
                    /\ joined' = joined + 1
               ELSE /\ joined' = joined + 1
                    /\ UNCHANGED <<mpc, exitCode, mfail>>
    /\ UNCHANGED <<cfg, signalled, spawned, mutex, stats, wstate, history>>

\* ------------------------------------------------------------------ tx_thread
\* UdpSocket::bind(...) returns Ok
WBind(w) ==
    /\ Alive
    /\ wpc[w] = "bind"
    /\ wpc' = [wpc EXCEPT ![w] = "pool"]
    /\ UNCHANGED <<cfg, signalled, mstate, mutex, stats, wfail, tstats,
                   messages, wire, history>>

\* UdpSocket::bind(...) returns Err: .unwrap panics in the transmitter
WBindFail(w) ==
    /\ Alive
    /\ wpc[w] = "bind"
    /\ wpc' = [wpc EXCEPT ![w] = "panicked"]
    /\ wfail' = [wfail EXCEPT ![w] = "bind"]
    /\ UNCHANGED <<cfg, signalled, mstate, mutex, stats, tstats, messages,
                   wire, history>>

\* WBuildPool entering a loop that tests the flag first (while !signalled)
WBuildPoolChecksFirst(w) ==
    /\ Alive
    /\ wpc[w] = "pool"
    /\ IF PoolPanics(cfg)
       THEN /\ wpc' = [wpc EXCEPT ![w] = "panicked"]
            /\ wfail' = [wfail EXCEPT ![w] = "pool"]
            /\ UNCHANGED messages
       ELSE /\ \E pool \in [1..PoolSize -> PoolMessages(cfg)] :
                 messages' = [messages EXCEPT ![w] = pool]
            /\ wpc' = [wpc EXCEPT ![w] = "check"]
            /\ UNCHANGED wfail
    /\ UNCHANGED <<cfg, signalled, mstate, mutex, stats, tstats, wire,
                   history>>

\* WBuildPool falling back to priority 0 and one word instead of panicking
WBuildPoolLenient(w) ==
    /\ Alive
    /\ wpc[w] = "pool"
    /\ \E pool \in [1..PoolSize ->
                       IF PoolPanics(cfg) THEN {FormatMessage(0, RandWord(1))}
                       ELSE PoolMessages(cfg)] :
          messages' = [messages EXCEPT ![w] = pool]
    /\ wpc' = [wpc EXCEPT ![w] = "send"]
    /\ UNCHANGED <<cfg, signalled, mstate, mutex, stats, wfail, tstats, wire,
                   history>>

\* the pool loop: it panics in its first iteration when a range is empty,
\* and otherwise pushes PoolSize messages
WBuildPool(w) ==
    /\ Alive
    /\ wpc[w] = "pool"
    /\ IF PoolPanics(cfg)
       THEN /\ wpc' = [wpc EXCEPT ![w] = "panicked"]
            /\ wfail' = [wfail EXCEPT ![w] = "pool"]
            /\ UNCHANGED messages
       ELSE /\ \E pool \in [1..PoolSize -> PoolMessages(cfg)] :
                 messages' = [messages EXCEPT ![w] = pool]
            /\ wpc' = [wpc EXCEPT ![w] = "send"]
            /\ UNCHANGED wfail
    /\ UNCHANGED <<cfg, signalled, mstate, mutex, stats, tstats, wire,
                   history>>

\* WSend without the pacing sleep: straight on to the flag check
WSendNoSleep(w) ==
    /\ Alive
    /\ wpc[w] = "send"
    /\ sent.packets < MaxSends
    /\ \E idx \in GenRange(1, Len(messages[w]) + 1) :
          LET message == messages[w][idx]
              bytes   == Len(message)
          IN  /\ wire' = <<w, message>>
              /\ sent' = Add(sent, [packets |-> 1, bytes |-> bytes])
              /\ hasSent' = [hasSent EXCEPT ![w] = TRUE]
              /\ postSends' = [postSends EXCEPT ![w] =
                                  IF signalled THEN @ + 1 ELSE @]
              /\ tstats' = [tstats EXCEPT ![w] =
                               [packets |-> @.packets + 1, bytes |-> @.bytes + bytes]]
    /\ wpc' = [wpc EXCEPT ![w] = "check"]
    /\ UNCHANGED <<cfg, signalled, mstate, mutex, stats, wfail, messages,
                   flushed, reported, sinceDrain, flushedAtDrain, hasDrained,
                   postDrains>>

\* send_to returns Ok(bytes): pick a message, send it, count it locally
WSend(w) ==
    /\ Alive
    /\ wpc[w] = "send"
    /\ sent.packets < MaxSends
    /\ \E idx \in GenRange(1, Len(messages[w]) + 1) :
          LET message == messages[w][idx]
              bytes   == Len(message)
          IN  /\ wire' = <<w, message>>
              /\ sent' = Add(sent, [packets |-> 1, bytes |-> bytes])
              /\ hasSent' = [hasSent EXCEPT ![w] = TRUE]
              /\ postSends' = [postSends EXCEPT ![w] =
                                  IF signalled THEN @ + 1 ELSE @]
              /\ tstats' = [tstats EXCEPT ![w] =
                               [packets |-> @.packets + 1, bytes |-> @.bytes + bytes]]
    /\ wpc' = [wpc EXCEPT ![w] = "sleep"]
    /\ UNCHANGED <<cfg, signalled, mstate, mutex, stats, wfail, messages,
                   flushed, reported, sinceDrain, flushedAtDrain, hasDrained,
                   postDrains>>

\* WSendFail retrying instead of panicking
WSendFailRetries(w) ==
    /\ Alive
    /\ wpc[w] = "send"
    /\ wfail' = [wfail EXCEPT ![w] = "send"]
    /\ UNCHANGED <<cfg, signalled, mstate, mutex, stats, wpc, tstats, messages,
                   wire, history>>

\* send_to returns Err: .unwrap panics in the transmitter
WSendFail(w) ==
    /\ Alive
    /\ wpc[w] = "send"
    /\ wpc' = [wpc EXCEPT ![w] = "panicked"]
    /\ wfail' = [wfail EXCEPT ![w] = "send"]
    /\ UNCHANGED <<cfg, signalled, mstate, mutex, stats, tstats, messages,
                   wire, history>>

\* WSleep with the flag checked only after a flush
WSleepSkipsCheck(w) ==
    /\ Alive
    /\ wpc[w] = "sleep"
    /\ \E elapsed \in BOOLEAN :
          wpc' = [wpc EXCEPT ![w] = IF elapsed THEN "lock" ELSE "send"]
    /\ UNCHANGED <<cfg, signalled, mstate, mutex, stats, wfail, tstats,
                   messages, wire, history>>

\* thread::sleep(Duration::from_micros(sleep_us)), then the test
\* tick.elapsed() >= 100 ms, which may go either way
WSleep(w) ==
    /\ Alive
    /\ wpc[w] = "sleep"
    /\ \E elapsed \in BOOLEAN :
          wpc' = [wpc EXCEPT ![w] = IF elapsed THEN "lock" ELSE "check"]
    /\ UNCHANGED <<cfg, signalled, mstate, mutex, stats, wfail, tstats,
                   messages, wire, history>>

\* WLock taking the mutex whoever holds it
WLockBarges(w) ==
    /\ Alive
    /\ wpc[w] = "lock"
    /\ mutex' = w
    /\ wpc' = [wpc EXCEPT ![w] = "flush"]
    /\ UNCHANGED <<cfg, signalled, mstate, stats, wfail, tstats, messages,
                   wire, history>>

\* stats.lock().unwrap() in the transmitter
WLock(w) ==
    /\ Alive
    /\ wpc[w] = "lock"
    /\ mutex = 0
    /\ mutex' = w
    /\ wpc' = [wpc EXCEPT ![w] = "flush"]
    /\ UNCHANGED <<cfg, signalled, mstate, stats, wfail, tstats, messages,
                   wire, history>>

\* WFlush adding the local counters without zeroing them
WFlushKeepsLocal(w) ==
    /\ Alive
    /\ wpc[w] = "flush"
    /\ mutex = w
    /\ stats' = [packets |-> stats.packets + tstats[w].packets,
                 bytes   |-> stats.bytes + tstats[w].bytes]
    /\ flushed' = Add(flushed, tstats[w])
    /\ sinceDrain' = Add(sinceDrain, tstats[w])
    /\ mutex' = 0
    /\ wpc' = [wpc EXCEPT ![w] = "check"]
    /\ UNCHANGED <<cfg, signalled, mstate, wfail, tstats, messages, wire, sent,
                   reported, flushedAtDrain, hasSent, postSends, hasDrained,
                   postDrains>>

\* WFlush zeroing the local counters without adding them
WFlushLost(w) ==
    /\ Alive
    /\ wpc[w] = "flush"
    /\ mutex = w
    /\ tstats' = [tstats EXCEPT ![w] = [packets |-> 0, bytes |-> 0]]
    /\ mutex' = 0
    /\ wpc' = [wpc EXCEPT ![w] = "check"]
    /\ UNCHANGED <<cfg, signalled, mstate, stats, wfail, messages, wire, history>>

\* the transmitter's critical section: add the local counters, zero them,
\* drop the guard
WFlush(w) ==
    /\ Alive
    /\ wpc[w] = "flush"
    /\ mutex = w
    /\ stats' = [packets |-> stats.packets + tstats[w].packets,
                 bytes   |-> stats.bytes + tstats[w].bytes]
    /\ flushed' = Add(flushed, tstats[w])
    /\ sinceDrain' = Add(sinceDrain, tstats[w])
    /\ tstats' = [tstats EXCEPT ![w] = [packets |-> 0, bytes |-> 0]]
    /\ mutex' = 0
    /\ wpc' = [wpc EXCEPT ![w] = "check"]
    /\ UNCHANGED <<cfg, signalled, mstate, wfail, messages, wire, sent,
                   reported, flushedAtDrain, hasSent, postSends, hasDrained,
                   postDrains>>

\* WCheck with a swap(false) in place of the load
WCheckClears(w) ==
    /\ Alive
    /\ wpc[w] = "check"
    /\ wpc' = [wpc EXCEPT ![w] = IF signalled THEN "draining" ELSE "send"]
    /\ signalled' = FALSE
    /\ UNCHANGED <<cfg, mstate, mutex, stats, wfail, tstats, messages, wire,
                   history>>

\* signalled.load(SeqCst) at the end of a transmitter iteration
WCheck(w) ==
    /\ Alive
    /\ wpc[w] = "check"
    /\ wpc' = [wpc EXCEPT ![w] = IF signalled THEN "draining" ELSE "send"]
    /\ UNCHANGED <<cfg, signalled, mstate, mutex, stats, wfail, tstats,
                   messages, wire, history>>

\* WExit flushing the local counters once more before returning
WExitFlushes(w) ==
    /\ Alive
    /\ wpc[w] = "draining"
    /\ mutex = 0
    /\ stats' = Add(stats, tstats[w])
    /\ flushed' = Add(flushed, tstats[w])
    /\ sinceDrain' = Add(sinceDrain, tstats[w])
    /\ tstats' = [tstats EXCEPT ![w] = Zero]
    /\ wpc' = [wpc EXCEPT ![w] = "exited"]
    /\ UNCHANGED <<cfg, signalled, mstate, mutex, wfail, messages, wire, sent,
                   reported, flushedAtDrain, hasSent, postSends, hasDrained,
                   postDrains>>

\* the end of tx_thread after the break: the socket and the pool are dropped
WExit(w) ==
    /\ Alive
    /\ wpc[w] = "draining"
    /\ wpc' = [wpc EXCEPT ![w] = "exited"]
    /\ UNCHANGED <<cfg, signalled, mstate, mutex, stats, wfail, tstats,
                   messages, wire, history>>

Next ==
    \/ SignalHandler
    \/ MInstallHandler
    \/ MInstallHandlerFail
    \/ MSpawn
    \/ MSleep
    \/ MLock
    \/ MDrain
    \/ MPrintFail
    \/ MCheck
    \/ MJoin
    \/ \E w \in Workers :
          \/ WBind(w)
          \/ WBindFail(w)
          \/ WBuildPool(w)
          \/ WSend(w)
          \/ WSendFail(w)
          \/ WSleep(w)
          \/ WLock(w)
          \/ WFlush(w)
          \/ WCheck(w)
          \/ WExit(w)

Spec == Init /\ [][Next]_vars

TypeOK ==
    /\ cfg \in Configs
    /\ signalled \in BOOLEAN
    /\ mutex \in {-1, 0} \cup Workers
    /\ spawned \in 0..MaxThreads
    /\ joined \in 0..spawned

\* ------------------------------------------------------------------ claims
\* a transmitter that has returned from tx_thread or panicked in it
Ended(w) == wpc[w] \in {"exited", "panicked"}

\* main has left the reporter loop through its break
LeftLoop == mpc \in {"join", "done"} \/ mfail = "join"

Failed(w) == wfail[w] # "none"

LocalSum == SumStats(tstats, Workers)

\* C1: counter conservation. What the reporter has printed over all its
\* drains is the sum of the deltas flushed before its last drain; the shared
\* Stats a drain is about to print is the sum of the deltas flushed since
\* the previous drain; every flushed delta is either printed or still in
\* the shared Stats, once.
C1_Conservation ==
    /\ reported = flushedAtDrain
    /\ stats = sinceDrain
    /\ flushed = Add(reported, stats)

\* two transmitters, a drain that printed something, and a later flush
C1_Witness ==
    /\ cfg.threads_nr = 2
    /\ reported.packets >= 1
    /\ stats.packets >= 1
    /\ mpc = "drain"

\* C2 as stated: the packets sent exceed the packets reported by at most the
\* transmitters' unflushed local batches.
C2_Original ==
    /\ reported.packets <= sent.packets
    /\ sent.packets <= reported.packets + LocalSum.packets

\* C2 amended: the packets sent exceed the packets reported by at most the
\* shared Stats not yet drained plus the transmitters' unflushed local
\* batches.
C2_Amended ==
    /\ reported.packets <= sent.packets
    /\ sent.packets <= reported.packets + stats.packets + LocalSum.packets

\* the process has exited on a signal with a flushed delta never printed
\* and a local batch never flushed
C2_Witness ==
    /\ exitCode = 0
    /\ signalled
    /\ stats.packets >= 1
    /\ LocalSum.packets >= 1

\* C3 as stated, for a run that has ended otherwise than by a failed write
\* to stdout: once the process has terminated after the flag was set, every
\* transmitter has left its loop and has been joined.
C3_Original ==
    (exitCode # -1 /\ signalled /\ mfail # "print") =>
        /\ joined = spawned
        /\ \A w \in 1..spawned : Ended(w)

\* C4: the flag starts false, no step clears it, and only the signal handler
\* changes it.
C4_Monotonic ==
    /\ ~signalled
    /\ [][/\ signalled => signalled'
          /\ signalled' # signalled => SignalHandler]_vars

\* the flag is set, a transmitter and the reporter have both observed it
C4_Witness ==
    /\ signalled
    /\ mpc = "join"
    /\ \E w \in Workers : wpc[w] = "exited"

\* C5 as stated: with a configuration error no transmitter is spawned and
\* the reporter loop is never entered.
C5_Original ==
    ConfigError(cfg) => (spawned = 0 /\ mpc \in {"handler", "spawn", "panicked"})

\* C6: with a configuration error nothing is ever sent, counted or flushed,
\* and no transmitter gets past the pool loop.
C6_NoTraffic ==
    ConfigError(cfg) =>
        /\ sent = Zero
        /\ wire = <<>>
        /\ stats = Zero
        /\ flushed = Zero
        /\ \A w \in Workers :
              /\ tstats[w] = Zero
              /\ messages[w] = <<>>
              /\ wpc[w] \in {"unspawned", "bind", "pool", "panicked"}

\* two transmitters have both panicked in the pool loop, the reporter runs
C6_Witness ==
    /\ ConfigError(cfg)
    /\ cfg.threads_nr = 2
    /\ \A w \in 1..2 : wfail[w] = "pool"
    /\ mpc = "check"

\* C7: the payload of every datagram is a message of its sender's pool, its
\* priority is below priority_max, and a pool never changes once built.
C7_PriorityLaw ==
    /\ [](wire # <<>> =>
            /\ \E i \in DOMAIN messages[wire[1]] : messages[wire[1]][i] = wire[2]
            /\ ParsePrio(wire[2]) \in 0..(cfg.priority_max - 1))
    /\ [][\A w \in Workers : messages[w] # <<>> => messages'[w] = messages[w]]_vars

\* a datagram with the largest priority of -P 2 is on the wire
C7_Witness ==
    /\ wire # <<>>
    /\ cfg.priority_max = 2
    /\ ParsePrio(wire[2]) = 1

\* C8: every pool message has exactly words_fixed words when words_fixed > 0,
\* and between 1 and words_max - 1 words when words_fixed = 0.
C8_WordCount ==
    \A w \in Workers : \A i \in DOMAIN messages[w] :
        IF cfg.words_fixed > 0
        THEN WordCount(messages[w][i]) = cfg.words_fixed
        ELSE WordCount(messages[w][i]) \in 1..(cfg.words_max - 1)

\* a pool of -W 3 holding a one-word and a two-word message
C8_Witness ==
    /\ cfg.words_fixed = 0
    /\ cfg.words_max = 3
    /\ \E w \in Workers :
          /\ \E i \in DOMAIN messages[w] : WordCount(messages[w][i]) = 1
          /\ \E i \in DOMAIN messages[w] : WordCount(messages[w][i]) = 2

\* C9 as stated: a process that ended after a signal with no failed
\* transmitter exits 0, and one that ended with a startup or configuration
\* error exits non-zero.
C9_Original ==
    exitCode # -1 =>
        /\ (signalled /\ \A w \in Workers : ~Failed(w)) /\ ~ConfigError(cfg)
              => exitCode = 0
        /\ (ConfigError(cfg) \/ \E w \in Workers : wfail[w] = "bind")
              => exitCode # 0

\* C10 as stated: once a transmitter has failed to bind, nothing more is
\* sent and the reporter drains no more.
C10_Original ==
    [][(\E w \in Workers : wfail[w] = "bind") =>
          /\ sent' = sent
          /\ ~(mpc = "drain" /\ mpc' = "check")]_vars

\* C11 as stated: main never panics inside the reporter loop, whatever has
\* happened to the transmitters.
C11_Original ==
    mpc = "panicked" => mfail \in {"handler", "join"}

\* the states of section 4.2's machine
Phase(pc) ==
    CASE pc = "unspawned" -> "NONE"
      [] pc \in {"bind", "pool"} -> "INIT"
      [] pc \in {"send", "sleep", "lock", "flush", "check"} -> "SENDING"
      [] pc = "draining" -> "DRAINING"
      [] pc = "exited" -> "EXITED"
      [] pc = "panicked" -> "FAILED"

MachineEdges ==
    { <<"NONE", "INIT">>, <<"INIT", "SENDING">>, <<"SENDING", "DRAINING">>,
      <<"DRAINING", "EXITED">> }

FailureEdges == { <<"INIT", "FAILED">>, <<"SENDING", "FAILED">> }

\* what C12 says of a step, with `edges` the transitions allowed
MachineStep(edges) ==
    \A w \in Workers :
        LET a == Phase(wpc[w])
            b == Phase(wpc'[w])
        IN  /\ a # b => <<a, b>> \in edges
            /\ (a = "SENDING" /\ b = "DRAINING") => signalled
            /\ a \in {"DRAINING", "EXITED"} =>
                  /\ tstats'[w] = tstats[w]
                  /\ mutex' # w

\* C12 as stated: INIT -> SENDING -> DRAINING -> EXITED and no other
\* transition.
C12_Original == [][MachineStep(MachineEdges)]_vars

\* C12 amended: the same machine with the two abnormal terminations, from
\* INIT (bind or pool failure) and from SENDING (send failure); SENDING ->
\* DRAINING only with the flag set; after the loop the transmitter never
\* takes the mutex and its local counters never change.
C12_Amended == [][MachineStep(MachineEdges \cup FailureEdges)]_vars

\* the process has ended cleanly and a transmitter returned with counters
\* it never flushed
C12_Witness ==
    /\ exitCode = 0
    /\ \E w \in Workers : wpc[w] = "exited" /\ tstats[w].packets >= 1

\* C13: after the flag is set a transmitter sends at most once more and the
\* reporter drains at most once more.
C13_OneMoreIteration ==
    /\ \A w \in Workers : postSends[w] <= 1
    /\ postDrains <= 1

\* one transmitter sent once before the flag and once after it, then left;
\* the reporter drained once after the flag and left its loop
C13_Witness ==
    /\ cfg.threads_nr = 1
    /\ sent.packets = 2
    /\ postSends[1] = 1
    /\ wpc[1] = "exited"
    /\ postDrains = 1
    /\ mpc = "join"

\* C14: within the loop a transmitter goes send, sleep, optional flush, flag
\* check and back to send; the send step counts its own datagram and no
\* other step of the loop raises the local counters.
C14_IterationOrder ==
    [][\A w \in Workers :
          /\ wpc[w] = "send" => wpc'[w] \in {"send", "sleep", "panicked"}
          /\ wpc[w] = "sleep" => wpc'[w] \in {"sleep", "lock", "check"}
          /\ wpc[w] = "lock" => wpc'[w] \in {"lock", "flush"}
          /\ wpc[w] = "flush" => wpc'[w] \in {"flush", "check"}
          /\ wpc[w] = "check" => wpc'[w] \in {"check", "send", "draining"}
          /\ wpc'[w] = "send" /\ wpc[w] # "send" => wpc[w] \in {"pool", "check"}
          /\ (wpc[w] = "send" /\ wpc'[w] = "sleep") =>
                /\ wire'[1] = w
                /\ tstats'[w] = Add(tstats[w],
                                    [packets |-> 1, bytes |-> Len(wire'[2])])
          /\ ~(wpc[w] = "send" /\ wpc'[w] = "sleep") =>
                tstats'[w] \in {tstats[w], Zero}]_vars

\* a transmitter has sent, slept, flushed, checked the flag and sent again
C14_Witness ==
    \E w \in Workers :
        /\ wpc[w] = "sleep"
        /\ tstats[w].packets = 1
        /\ flushed.packets = 1
        /\ cfg.threads_nr = 1

\* C15 as stated: no step that sends, sleeps or writes to stdout is taken by
\* the thread that holds the mutex.
C15_Original ==
    [][/\ \A w \in Workers :
             (wpc[w] \in {"send", "sleep"} /\ wpc'[w] # wpc[w]) => mutex # w
       /\ (mpc = "sleep" /\ mpc' # mpc) => mutex # -1
       /\ (mpc = "drain" /\ mpc' # mpc) => mutex # -1]_vars

\* C16 as stated, for a run that has ended otherwise than by a failed write
\* to stdout: every transmitter is spawned before the first tick, the loop
\* is left only with the flag set, and the process ends only when every
\* transmitter has ended.
C16_Original ==
    /\ mpc \in {"sleep", "lock", "drain", "check", "join", "done"} =>
          spawned = cfg.threads_nr
    /\ LeftLoop => signalled
    /\ (exitCode # -1 /\ mfail \in {"none", "join"}) =>
          \A w \in 1..cfg.threads_nr : Ended(w)

\* C17: a transmitter whose send failed is dead and stays dead, keeps its
\* local counters, does not hold the mutex; the steps of the other
\* transmitters stay enabled while the process runs.
C17_SendFailureFatal ==
    /\ [](\A w \in Workers : wfail[w] = "send" =>
            /\ wpc[w] = "panicked"
            /\ mutex # w
            /\ \A v \in Workers \ {w} :
                  /\ (Alive /\ wpc[v] = "send" /\ sent.packets < MaxSends)
                        => ENABLED WSend(v)
                  /\ (Alive /\ wpc[v] = "lock" /\ mutex = 0) => ENABLED WLock(v)
                  /\ (Alive /\ wpc[v] = "flush") => ENABLED WFlush(v))
    /\ [][\A w \in Workers : wfail[w] = "send" =>
             /\ wpc'[w] = "panicked"
             /\ tstats'[w] = tstats[w]
             /\ mutex' # w]_vars

\* one transmitter died in send_to holding a counted datagram, another one
\* holds the mutex for its flush
C17_Witness ==
    \E w, v \in Workers :
        /\ wfail[w] = "send"
        /\ tstats[w].packets >= 1
        /\ wpc[v] = "flush"
        /\ tstats[v].packets >= 1

\* C18: sent = reported + shared + sum of the local counters, for packets
\* and for bytes; a flush moves the local counters into the shared Stats, a
\* drain moves the shared Stats into the reported total.
C18_Accounting ==
    /\ [](sent = Add(reported, Add(stats, LocalSum)))
    /\ [][/\ \A w \in Workers : (wpc[w] = "flush" /\ wpc'[w] = "check") =>
                /\ stats' = Add(stats, tstats[w])
                /\ tstats'[w] = Zero
          /\ (mpc = "drain" /\ mpc' = "check") =>
                /\ reported' = Add(reported, stats)
                /\ stats' = Zero]_vars

\* something was reported, and an ended transmitter holds counters it never
\* flushed
C18_Witness ==
    /\ reported.packets >= 1
    /\ \E w \in Workers : Ended(w) /\ tstats[w].packets >= 1

\* C19: a transmitter that has left its loop through the flag check has
\* sent, and a reporter that has left its loop has drained.
C19_AtLeastOnce ==
    /\ \A w \in Workers : wpc[w] \in {"draining", "exited"} => hasSent[w]
    /\ LeftLoop => hasDrained

\* the only datagram was sent after the flag was set, and both loops were
\* left after one iteration under the flag
C19_Witness ==
    /\ cfg.threads_nr = 1
    /\ wpc[1] = "exited"
    /\ sent.packets = 1
    /\ postSends[1] = 1
    /\ reported = Zero
    /\ postDrains = 1
    /\ mpc = "join"

\* a step of main or of a transmitter (every step but the signal's arrival)
ThreadStep ==
    \/ MInstallHandler
    \/ MInstallHandlerFail
    \/ MSpawn
    \/ MSleep
    \/ MLock
    \/ MDrain
    \/ MPrintFail
    \/ MCheck
    \/ MJoin
    \/ \E w \in Workers :
          \/ WBind(w)
          \/ WBindFail(w)
          \/ WBuildPool(w)
          \/ WSend(w)
          \/ WSendFail(w)
          \/ WSleep(w)
          \/ WLock(w)
          \/ WFlush(w)
          \/ WCheck(w)
          \/ WExit(w)

\* a thread inside a critical section goes on running, and a thread waiting
\* in lock() is not passed over for ever once the mutex is free again and
\* again
Fairness ==
    /\ WF_vars(MDrain \/ MPrintFail)
    /\ SF_vars(MLock)
    /\ \A w \in Workers : WF_vars(WFlush(w)) /\ SF_vars(WLock(w))

FairSpec == Spec /\ Fairness

====
